---- MODULE Spec2Model ----
(***************************************************************************)
(* A model of the kilo_rust editor: the content/render row store of        *)
(* window.rs, the per-line highlight scanner of highlight.rs, the cursor   *)
(* and viewport arithmetic, the incremental search callback and the main   *)
(* key loop of input.rs / main.rs.                                         *)
(*                                                                         *)
(* Text is modelled as sequences of one-character strings.  All text is    *)
(* ASCII, so Rust's byte indices and character indices coincide.           *)
(***************************************************************************)
EXTENDS Integers, Sequences, FiniteSets, TLC

\* ------------------------------------------------------------------------
\* Generic helpers for Rust's Vec / String operations (0-based indices).
\* ------------------------------------------------------------------------
Min(a, b) == IF a < b THEN a ELSE b

\* &s[a..b]
Slice(s, a, b) == SubSeq(s, a + 1, b)

\* Vec::insert(at, x)
InsertAt(s, at, x) == SubSeq(s, 1, at) \o <<x>> \o SubSeq(s, at + 1, Len(s))

\* Vec::remove(at)
RemoveAt(s, at) == SubSeq(s, 1, at) \o SubSeq(s, at + 2, Len(s))

\* v[at] = x
SetAt(s, at, x) == [s EXCEPT ![at + 1] = x]

\* n copies of x
Repeat(x, n) == [i \in 1..n |-> x]

\* the element of a one-element set; {F(x) : x \in {e}} computes e once and
\* names its value x, the way a `let` of the source does
The(S) == CHOOSE x \in S : TRUE

\* str::find: the 0-based index of the first occurrence of q in s, -1 for None
Find(s, q) ==
    LET hits == {i \in 0..(Len(s) - Len(q)) : Slice(s, i, i + Len(q)) = q}
    IN  IF hits = {} THEN -1 ELSE CHOOSE i \in hits : \A j \in hits : i <= j

\* ------------------------------------------------------------------------
\* file_syntax.rs
\* ------------------------------------------------------------------------
C_KEYWORDS ==
    <<
       <<"s", "w", "i", "t", "c", "h">>,
       <<"i", "f">>,
       <<"w", "h", "i", "l", "e">>,
       <<"f", "o", "r">>,
       <<"b", "r", "e", "a", "k">>,
       <<"c", "o", "n", "t", "i", "n", "u", "e">>,
       <<"r", "e", "t", "u", "r", "n">>,
       <<"e", "l", "s", "e">>,
       <<"s", "t", "r", "u", "c", "t">>,
       <<"u", "n", "i", "o", "n">>,
       <<"t", "y", "p", "e", "d", "e", "f">>,
       <<"s", "t", "a", "t", "i", "c">>,
       <<"e", "n", "u", "m">>,
       <<"c", "l", "a", "s", "s">>,
       <<"c", "a", "s", "e">>,
       <<"i", "n", "t", "|">>,
       <<"l", "o", "n", "g", "|">>,
       <<"d", "o", "u", "b", "l", "e", "|">>,
       <<"f", "l", "o", "a", "t", "|">>,
       <<"c", "h", "a", "r", "|">>,
       <<"u", "n", "s", "i", "g", "n", "e", "d", "|">>,
       <<"s", "i", "g", "n", "e", "d", "|">>,
       <<"v", "o", "i", "d", "|">>
    >>

RUST_KEYWORDS ==
    <<
       <<"a", "s">>,
       <<"b", "r", "e", "a", "k">>,
       <<"c", "o", "n", "s", "t">>,
       <<"c", "o", "n", "t", "i", "n", "u", "e">>,
       <<"c", "r", "a", "t", "e">>,
       <<"e", "l", "s", "e">>,
       <<"e", "n", "u", "m">>,
       <<"e", "x", "t", "e", "r", "n">>,
       <<"f", "a", "l", "s", "e", "|">>,
       <<"f", "n">>,
       <<"f", "o", "r">>,
       <<"i", "f">>,
       <<"i", "m", "p", "l">>,
       <<"i", "n">>,
       <<"l", "e", "t">>,
       <<"l", "o", "o", "p">>,
       <<"m", "a", "t", "c", "h">>,
       <<"m", "o", "d">>,
       <<"m", "o", "v", "e">>,
       <<"m", "u", "t">>,
       <<"p", "u", "b">>,
       <<"r", "e", "f", "|">>,
       <<"r", "e", "t", "u", "r", "n">>,
       <<"s", "e", "l", "f", "|">>,
       <<"S", "e", "l", "f", "|">>,
       <<"s", "t", "a", "t", "i", "c">>,
       <<"s", "t", "r", "u", "c", "t">>,
       <<"s", "u", "p", "e", "r">>,
       <<"t", "r", "a", "i", "t">>,
       <<"t", "r", "u", "e", "|">>,
       <<"t", "y", "p", "e">>,
       <<"u", "n", "s", "a", "f", "e">>,
       <<"u", "s", "e">>,
       <<"w", "h", "e", "r", "e">>,
       <<"w", "h", "i", "l", "e">>,
       <<"a", "s", "y", "n", "c">>,
       <<"a", "w", "a", "i", "t">>
    >>

RUBY_KEYWORDS ==
    <<
       <<"_", "_", "E", "N", "C", "O", "D", "I", "N", "G", "_", "_", "|">>,
       <<"_", "_", "L", "I", "N", "E", "_", "_", "|">>,
       <<"_", "_", "F", "I", "L", "E", "_", "_", "|">>,
       <<"B", "E", "G", "I", "N", "|">>,
       <<"E", "N", "D", "|">>,
       <<"a", "l", "i", "a", "s">>,
       <<"a", "n", "d">>,
       <<"b", "e", "g", "i", "n">>,
       <<"b", "r", "e", "a", "k">>,
       <<"c", "a", "s", "e">>,
       <<"c", "l", "a", "s", "s">>,
       <<"d", "e", "f">>,
       <<"d", "e", "f", "i", "n", "e", "d", "?">>,
       <<"d", "o">>,
       <<"e", "l", "s", "e">>,
       <<"e", "l", "s", "i", "f">>,
       <<"e", "n", "d">>,
       <<"e", "n", "s", "u", "r", "e">>,
       <<"f", "a", "l", "s", "e", "|">>,
       <<"f", "o", "r">>,
       <<"i", "f">>,
       <<"i", "n">>,
       <<"m", "o", "d", "u", "l", "e">>,
       <<"n", "e", "x", "t">>,
       <<"n", "i", "l", "|">>,
       <<"n", "o", "t">>,
       <<"o", "r">>,
       <<"r", "e", "d", "o">>,
       <<"r", "e", "s", "c", "u", "e">>,
       <<"r", "e", "t", "r", "y">>,
       <<"r", "e", "t", "u", "r", "n">>,
       <<"s", "e", "l", "f", "|">>,
       <<"s", "u", "p", "e", "r">>,
       <<"t", "h", "e", "n">>,
       <<"t", "r", "u", "e", "|">>,
       <<"u", "n", "d", "e", "f">>,
       <<"u", "n", "l", "e", "s", "s">>,
       <<"u", "n", "t", "i", "l">>,
       <<"w", "h", "e", "n">>,
       <<"w", "h", "i", "l", "e">>,
       <<"y", "i", "e", "l", "d", " ">>
    >>

\* FileSyntax::new(): the profile of a file with no known extension
FileSyntaxNew ==
    [ftype |-> "Undefined",
     singleline_comment_start |-> <<"#">>,
     multiline_comment_start |-> <<>>,
     multiline_comment_end |-> <<>>,
     keywords |-> <<>>,
     HL_NUMBER |-> FALSE,
     HL_STRING |-> FALSE]

C_SYNTAX ==
    [ftype |-> "C",
     singleline_comment_start |-> <<"/", "/">>,
     multiline_comment_start |-> <<"/", "*">>,
     multiline_comment_end |-> <<"*", "/">>,
     keywords |-> C_KEYWORDS,
     HL_NUMBER |-> TRUE,
     HL_STRING |-> TRUE]

RUST_SYNTAX ==
    [ftype |-> "Rust",
     singleline_comment_start |-> <<"/", "/">>,
     multiline_comment_start |-> <<"/", "*">>,
     multiline_comment_end |-> <<"*", "/">>,
     keywords |-> RUST_KEYWORDS,
     HL_NUMBER |-> TRUE,
     HL_STRING |-> TRUE]

RUBY_SYNTAX ==
    [ftype |-> "Ruby",
     singleline_comment_start |-> <<"#">>,
     multiline_comment_start |-> <<"=", "b", "e", "g", "i", "n">>,
     multiline_comment_end |-> <<"=", "e", "n", "d">>,
     keywords |-> RUBY_KEYWORDS,
     HL_NUMBER |-> TRUE,
     HL_STRING |-> TRUE]

\* SYNTAX_DB.get(extension), with get_syntax's fallback to FileSyntax::new()
get_syntax(ext) ==
    CASE ext \in {"c", "cpp", "h"} -> C_SYNTAX
      [] ext = "rs" -> RUST_SYNTAX
      [] ext = "rb" -> RUBY_SYNTAX
      [] OTHER -> FileSyntaxNew

\* the FileSyntax value a Highlight holds; the state keeps its ftype only
Profile(ftype) ==
    CASE ftype = "C" -> C_SYNTAX
      [] ftype = "Rust" -> RUST_SYNTAX
      [] ftype = "Ruby" -> RUBY_SYNTAX
      [] OTHER -> FileSyntaxNew

\* ------------------------------------------------------------------------
\* highlight.rs: the per-line scanner
\* ------------------------------------------------------------------------
Digits == {"0", "1", "2", "3", "4", "5", "6", "7", "8", "9"}

Whitespace == {" ", "\t", "\n", "\r"}

SeparatorChars ==
    {",", ".", "(", ")", "+", "-", "/", "*", "=", "~", "%", "<", ">", "[", "]", ";"}

is_separator(chr) == chr \in Whitespace \/ chr \in SeparatorChars

\* a keyword of the profile without its trailing "|" tag
KwText(keyword) ==
    IF Len(keyword) > 0 /\ keyword[Len(keyword)] = "|"
    THEN SubSeq(keyword, 1, Len(keyword) - 1)
    ELSE keyword

KwIsKw2(keyword) == Len(keyword) > 0 /\ keyword[Len(keyword)] = "|"

\* the keyword loop: index of the first keyword of the profile that matches at
\* ci and is followed by a separator, 0 when none does
KeywordAt(syn, line, ci) ==
    LET kws == syn.keywords
        hits == {i \in 1..Len(kws) :
                    LET kw == KwText(kws[i])
                    IN  /\ ~(Len(line) - ci < Len(kw) + 1)
                        /\ Slice(line, ci, ci + Len(kw)) = kw
                        /\ is_separator(line[ci + Len(kw) + 1])}
    IN  IF hits = {} THEN 0 ELSE CHOOSE i \in hits : \A j \in hits : i <= j

\* the scan state at the top of the loop body
ScanInit(carried) ==
    [row |-> <<>>, prev_sep |-> TRUE, in_string |-> "", in_comment |-> carried,
     skip |-> 0, stop |-> FALSE]

\* one iteration of the `for (ci, chr)` loop of line_to_highlight_color; ci is
\* 0-based.  highlight_row never has fewer than ci cells here (every branch
\* pushes at least as many cells as it consumes characters), so the read of
\* highlight_row[ci - 1] is always in range.
ScanChar(syn, line, ci, st) ==
    LET chr == line[ci + 1]
        n == Len(line)
        scs == syn.singleline_comment_start
        mcs == syn.multiline_comment_start
        mce == syn.multiline_comment_end
        prev_hl == IF ci = 0 THEN "Normal" ELSE st.row[ci]
        kwi == KeywordAt(syn, line, ci)
    IN
    IF syn.ftype = "Undefined" THEN
        [st EXCEPT !.row = Append(@, "Normal")]
    ELSE IF st.skip > 0 THEN
        [st EXCEPT !.skip = @ - 1]
    ELSE IF /\ Len(scs) > 0 /\ st.in_string = "" /\ ~st.in_comment
            /\ n > Len(scs) /\ ci < n - Len(scs)
            /\ Slice(line, ci, ci + Len(scs)) = scs THEN
        \* single line comment: the rest of the line, then break
        [st EXCEPT !.row = @ \o Repeat("Comment", n - ci), !.stop = TRUE]
    ELSE IF Len(mcs) > 0 /\ Len(mce) > 0 /\ st.in_string = "" /\ st.in_comment THEN
        IF ci + Len(mce) <= n /\ Slice(line, ci, ci + Len(mce)) = mce
        THEN [st EXCEPT !.row = @ \o <<"MultilineComment">>
                                   \o Repeat("MultilineComment", Len(mce) - 1),
                        !.skip = Len(mce) - 2,
                        !.in_comment = FALSE,
                        !.prev_sep = TRUE]
        ELSE [st EXCEPT !.row = Append(@, "MultilineComment")]
    ELSE IF /\ Len(mcs) > 0 /\ Len(mce) > 0 /\ st.in_string = ""
            /\ ci + Len(mcs) <= n /\ Slice(line, ci, ci + Len(mcs)) = mcs THEN
        [st EXCEPT !.row = @ \o Repeat("MultilineComment", Len(mcs)),
                   !.skip = Len(mcs) - 1,
                   !.in_comment = TRUE]
    ELSE IF syn.HL_STRING /\ st.in_string # "" THEN
        IF chr = "\\" /\ ci + 1 < n
        THEN [st EXCEPT !.row = @ \o <<"String", "String">>, !.skip = 1]
        ELSE [st EXCEPT !.row = Append(@, "String"),
                        !.in_string = IF @ = chr THEN "" ELSE @,
                        !.prev_sep = TRUE]
    ELSE IF syn.HL_STRING /\ chr \in {"\"", "'"} THEN
        [st EXCEPT !.in_string = chr, !.row = Append(@, "String")]
    ELSE IF /\ syn.HL_NUMBER
            /\ \/ chr \in Digits /\ (st.prev_sep \/ prev_hl = "Number")
               \/ chr = "." /\ prev_hl = "Number" THEN
        [st EXCEPT !.row = Append(@, "Number"), !.prev_sep = FALSE]
    ELSE IF st.prev_sep /\ kwi # 0 THEN
        LET kw == KwText(syn.keywords[kwi])
            cls == IF KwIsKw2(syn.keywords[kwi]) THEN "Keyword2" ELSE "Keyword1"
            pushed == [st EXCEPT !.row = @ \o Repeat(cls, Len(kw)),
                                 !.skip = Len(kw) - 1]
        IN  IF pushed.skip > 0
            THEN [pushed EXCEPT !.prev_sep = FALSE]
            ELSE [pushed EXCEPT !.row = Append(@, "Normal"),
                                !.prev_sep = is_separator(chr)]
    ELSE
        [st EXCEPT !.row = Append(@, "Normal"), !.prev_sep = is_separator(chr)]

RECURSIVE ScanFrom(_, _, _, _)
ScanFrom(syn, line, ci, st) ==
    IF ci >= Len(line) \/ st.stop THEN st
    ELSE ScanFrom(syn, line, ci + 1, ScanChar(syn, line, ci, st))

\* a scan tail that reports a changed continuation flag but never stores it
ScanResultFlagNotStored(h, row_index, st) ==
    [row |-> st.row, h |-> h,
     need |-> IF st.in_comment # h.in_comment[row_index + 1]
              THEN row_index + 1 ELSE -1]

\* the tail of line_to_highlight_color (highlight.rs:249-255) for the final
\* scan state st
ScanResult(h, row_index, st) ==
    IF st.in_comment # h.in_comment[row_index + 1]
    THEN [row |-> st.row,
          h |-> [h EXCEPT !.in_comment = SetAt(@, row_index, st.in_comment)],
          need |-> row_index + 1]
    ELSE [row |-> st.row, h |-> h, need |-> -1]

\* Highlight::line_to_highlight_color(line, row_index) on the highlighter h:
\* the row, the highlighter with in_comment[row_index] updated, and the
\* Option<usize> result (-1 for None)
line_to_highlight_color(h, line, row_index) ==
    The({ScanResult(h, row_index, st) :
            st \in {ScanFrom(Profile(h.syntax), line, 0,
                             ScanInit(row_index > 0 /\ h.in_comment[row_index]))}})

\* `self.highlights[row_index] = row` on the highlighter the scan left
StoreRow(r, row_index) == [r.h EXCEPT !.highlights = SetAt(@, row_index, r.row)]

\* Highlight::new(s, path)
RECURSIVE HighlightNewFrom(_, _, _)
HighlightNewFrom(h, s, index) ==
    IF index >= Len(s) THEN h
    ELSE The({HighlightNewFrom(h2, s, index + 1) :
                h2 \in {StoreRow(r, index) :
                    r \in {line_to_highlight_color(h1, s[index + 1], index) :
                        h1 \in {[h EXCEPT !.highlights = Append(@, <<>>),
                                          !.in_comment = Append(@, FALSE)]}}}})

HighlightNew(s, ext) ==
    HighlightNewFrom([syntax |-> get_syntax(ext).ftype, highlights |-> <<>>,
                      in_comment |-> <<>>], s, 0)

\* Highlight::update_row(row_index, line); the returned Option is dropped by
\* the only caller (Window::editor_update_row)
update_row(h, row_index, line) ==
    The({StoreRow(r, row_index) : r \in {line_to_highlight_color(h, line, row_index)}})

\* Highlight::insert_row(row_index, line)
insert_row(h, row_index, line) ==
    The({StoreRow(r, row_index) :
            r \in {line_to_highlight_color(h1, line, row_index) :
                h1 \in {[h EXCEPT !.highlights = InsertAt(@, row_index, <<>>),
                                  !.in_comment = Append(@, FALSE)]}}})

\* Highlight::remove_row(row_index) (no caller in window.rs)
remove_row(h, row_index) ==
    [h EXCEPT !.highlights = RemoveAt(@, row_index),
              !.in_comment = RemoveAt(@, row_index)]

\* Highlight::match_row(row_index, from, to): TRUE when every written index is
\* inside the row (otherwise the indexing panics)
match_row_in_range(h, row_index, from, to) ==
    /\ row_index < Len(h.highlights)
    /\ (from < to => to <= Len(h.highlights[row_index + 1]))

match_row(h, row_index, from, to) ==
    [h EXCEPT !.highlights[row_index + 1] =
        [i \in 1..Len(@) |-> IF from < i /\ i <= to THEN "Match" ELSE @[i]]]

\* ------------------------------------------------------------------------
\* window.rs: tab expansion and cursor column mapping
\* ------------------------------------------------------------------------
KILO_TAB_STOP == 8

\* the inner `while m % KILO_TAB_STOP != 0` loop of to_render_line
RECURSIVE TabPad(_, _)
TabPad(string, m) ==
    IF m % KILO_TAB_STOP # 0 THEN TabPad(Append(string, " "), m + 1) ELSE string

RECURSIVE ToRenderFrom(_, _, _)
ToRenderFrom(line, char_index, string) ==
    IF char_index >= Len(line) THEN string
    ELSE IF line[char_index + 1] = "\t"
         THEN ToRenderFrom(line, char_index + 1,
                           TabPad(Append(string, " "), char_index + 1))
         ELSE ToRenderFrom(line, char_index + 1,
                           Append(string, line[char_index + 1]))

to_render_line(line) == ToRenderFrom(line, 0, <<>>)

RECURSIVE CxToRxFrom(_, _, _, _)
CxToRxFrom(cx, line, char_index, rx) ==
    IF char_index >= Len(line) \/ cx = char_index THEN rx
    ELSE LET rx1 == IF line[char_index + 1] = "\t"
                    THEN rx + (KILO_TAB_STOP - 1) - (rx % KILO_TAB_STOP)
                    ELSE rx
         IN  CxToRxFrom(cx, line, char_index + 1, rx1 + 1)

\* Window::cx_to_rx(line) with self.cx = cx
cx_to_rx(cx, line) == CxToRxFrom(cx, line, 0, 0)

RECURSIVE RxToCxFrom(_, _, _, _)
RxToCxFrom(rx, line, cx, cur_rx) ==
    IF cx >= Len(line) THEN Len(line)
    ELSE LET c1 == IF line[cx + 1] = "\t"
                   THEN cur_rx + (KILO_TAB_STOP - 1) - (cur_rx % KILO_TAB_STOP)
                   ELSE cur_rx
             c2 == c1 + 1
         IN  IF c2 > rx THEN cx ELSE RxToCxFrom(rx, line, cx + 1, c2)

\* rx_to_cx that stops with `cur_rx >= rx` instead of `cur_rx > rx`
rx_to_cx_stops_at_equal(rx, line) == RxToCxFrom(rx - 1, line, 0, 0)

\* rx_to_cx that stops one rendered column late (`cur_rx > rx + 1`)
rx_to_cx_stops_late(rx, line) == RxToCxFrom(rx + 1, line, 0, 0)

\* Window::rx_to_cx(rx, line)
rx_to_cx(rx, line) == RxToCxFrom(rx, line, 0, 0)

\* ------------------------------------------------------------------------
\* window.rs: the Window object as a record w; `fault` is set when an
\* operation panics (an out-of-range index), which aborts the process
\* ------------------------------------------------------------------------
LineCount(w) == Len(w.content_buffer)

\* the length of content_buffer.get(cy), 0 for None
LineLenAt(w, y) == IF y < LineCount(w) THEN Len(w.content_buffer[y + 1]) ELSE 0

\* Window::editor_update_row(at)
editor_update_row(w, at) ==
    [w EXCEPT !.render_buffer = SetAt(@, at, to_render_line(w.content_buffer[at + 1])),
              !.highlight = update_row(@, at, w.content_buffer[at + 1])]

\* Window::editor_insert_row(at)
editor_insert_row(w, at) ==
    [w EXCEPT !.render_buffer = InsertAt(@, at, to_render_line(w.content_buffer[at + 1])),
              !.highlight = insert_row(@, at, w.content_buffer[at + 1])]

\* the body of insert_char after its `if self.cy == self.content_buffer.len()`
InsertCharInLine(w, c) ==
    IF w.cy >= LineCount(w)
    THEN [w EXCEPT !.fault = TRUE]
    ELSE The({[w2 EXCEPT !.cx = @ + 1, !.dirty = TRUE] :
                w2 \in {editor_update_row(w1, w1.cy) :
                    w1 \in {[w EXCEPT !.content_buffer[w.cy + 1] =
                                InsertAt(@, Min(w.cx, Len(w.content_buffer[w.cy + 1])), c)]}}})

\* Window::insert_char(c)
insert_char(w, c) ==
    The({InsertCharInLine(w1, c) :
            w1 \in {IF w.cy = LineCount(w)
                    THEN editor_insert_row([w EXCEPT !.content_buffer = Append(@, <<>>)], 0)
                    ELSE w}})

\* the `if self.cx > 0` branch of delete_char
DeleteInLine(w) ==
    IF w.cy >= LineCount(w) \/ w.cx - 1 >= Len(w.content_buffer[w.cy + 1])
    THEN [w EXCEPT !.fault = TRUE]
    ELSE The({[w2 EXCEPT !.dirty = TRUE] :
                w2 \in {editor_update_row(w1, w1.cy) :
                    w1 \in {[w EXCEPT !.content_buffer[w.cy + 1] = RemoveAt(@, w.cx - 1),
                                      !.cx = @ - 1]}}})

\* the `else` branch of delete_char: join line cy onto line cy - 1
JoinWithPrevious(w) ==
    IF w.cy >= LineCount(w)
    THEN [w EXCEPT !.fault = TRUE]
    ELSE The({[w2 EXCEPT !.content_buffer = RemoveAt(@, w2.cy),
                         !.render_buffer = RemoveAt(@, w2.cy),
                         !.cy = @ - 1,
                         !.dirty = TRUE] :
                w2 \in {editor_update_row(w1, w1.cy - 1) :
                    w1 \in {[w EXCEPT !.cx = Len(w.content_buffer[w.cy]),
                                      !.content_buffer[w.cy] =
                                          @ \o w.content_buffer[w.cy + 1]]}}})

\* delete_char that marks the buffer dirty before its early returns
delete_char_marks_dirty(w) ==
    IF w.cy = w.rows THEN w
    ELSE IF w.cx = 0 /\ w.cy = 0 THEN [w EXCEPT !.dirty = TRUE]
    ELSE IF w.cx > 0 THEN DeleteInLine(w)
    ELSE JoinWithPrevious(w)

\* Window::delete_char()
delete_char(w) ==
    IF w.cy = w.rows THEN w
    ELSE IF w.cx = 0 /\ w.cy = 0 THEN w
    ELSE IF w.cx > 0 THEN DeleteInLine(w)
    ELSE JoinWithPrevious(w)

\* Window::break_line()
break_line(w) ==
    IF w.cy >= LineCount(w) \/ w.cx > Len(w.content_buffer[w.cy + 1])
    THEN [w EXCEPT !.fault = TRUE]
    ELSE The({[w3 EXCEPT !.cy = @ + 1, !.cx = 0, !.dirty = TRUE] :
                w3 \in {editor_update_row(w2, w2.cy) :
                    w2 \in {editor_insert_row(w1, w1.cy + 1) :
                        w1 \in {[w EXCEPT !.content_buffer =
                                    InsertAt(SetAt(@, w.cy,
                                                   Slice(w.content_buffer[w.cy + 1], 0, w.cx)),
                                             w.cy + 1,
                                             Slice(w.content_buffer[w.cy + 1], w.cx,
                                                   Len(w.content_buffer[w.cy + 1])))]}}}})

\* move_cursor without the final `self.cx = min(self.cx, line_length)`
ClampCxMissing(w) == w

\* the trailing clamp of move_cursor
ClampCx(w) == [w EXCEPT !.cx = Min(@, LineLenAt(w, w.cy))]

MoveDown(w) ==
    ClampCx(IF LineCount(w) > w.cy THEN [w EXCEPT !.cy = @ + 1] ELSE w)

MoveUp(w) ==
    ClampCx(IF 0 < w.cy THEN [w EXCEPT !.cy = @ - 1] ELSE w)

MoveRight(w) ==
    ClampCx(IF w.cy < LineCount(w)
            THEN IF w.cx < LineLenAt(w, w.cy) THEN [w EXCEPT !.cx = @ + 1]
                 ELSE IF w.cx = LineLenAt(w, w.cy)
                      THEN [w EXCEPT !.cy = @ + 1, !.cx = 0]
                      ELSE w
            ELSE w)

MoveLeft(w) ==
    ClampCx(IF w.cx > 0 THEN [w EXCEPT !.cx = @ - 1]
            ELSE IF w.cy > 0
                 THEN [w EXCEPT !.cy = @ - 1, !.cx = LineLenAt(w, w.cy - 1)]
                 ELSE w)

\* `for _ in 0..n { self.move_cursor(Up) }` and the same for Down
RECURSIVE RepeatUp(_, _)
RepeatUp(w, n) == IF n = 0 THEN w ELSE RepeatUp(MoveUp(w), n - 1)

RECURSIVE RepeatDown(_, _)
RepeatDown(w, n) == IF n = 0 THEN w ELSE RepeatDown(MoveDown(w), n - 1)

\* Window::move_cursor(direction)
move_cursor(w, direction) ==
    CASE direction = "Down" -> MoveDown(w)
      [] direction = "Up" -> MoveUp(w)
      [] direction = "Right" -> MoveRight(w)
      [] direction = "Left" -> MoveLeft(w)
      [] direction = "PageUp" ->
            ClampCx(RepeatUp([w EXCEPT !.cy = w.row_offset], w.rows))
      [] direction = "PageDown" ->
            LET y == w.row_offset + w.rows - 1
                w1 == [w EXCEPT !.cy = IF y > LineCount(w) THEN LineCount(w) ELSE y]
            IN  ClampCx(RepeatDown(w1, w.rows))
      [] direction = "LineTop" -> ClampCx([w EXCEPT !.cx = 0])
      [] direction = "LineBottom" ->
            ClampCx(IF w.cy < LineCount(w)
                    THEN [w EXCEPT !.cx = Min(w.columns + w.col_offset - 1,
                                              LineLenAt(w, w.cy))]
                    ELSE [w EXCEPT !.cx = 0])

Directions ==
    {"Left", "Right", "Up", "Down", "PageUp", "PageDown", "LineTop", "LineBottom"}

\* editor_scroll that scrolls one column short when the cursor passes the
\* right edge (`self.rx - self.columns`)
editor_scroll_one_short(w) ==
    LET w1 == [w EXCEPT !.rx = IF w.cy < LineCount(w)
                               THEN cx_to_rx(w.cx, w.content_buffer[w.cy + 1])
                               ELSE 0]
        w2 == IF w1.cy < w1.row_offset THEN [w1 EXCEPT !.row_offset = w1.cy] ELSE w1
        w3 == IF w2.cy >= w2.row_offset + w2.rows
              THEN [w2 EXCEPT !.row_offset = w2.cy - w2.rows + 1] ELSE w2
        w4 == IF w3.rx < w3.col_offset THEN [w3 EXCEPT !.col_offset = w3.rx] ELSE w3
    IN  IF w4.rx >= w4.col_offset + w4.columns
        THEN [w4 EXCEPT !.col_offset = w4.rx - w4.columns] ELSE w4

\* Window::editor_scroll()
editor_scroll(w) ==
    LET w1 == [w EXCEPT !.rx = IF w.cy < LineCount(w)
                               THEN cx_to_rx(w.cx, w.content_buffer[w.cy + 1])
                               ELSE 0]
        w2 == IF w1.cy < w1.row_offset THEN [w1 EXCEPT !.row_offset = w1.cy] ELSE w1
        w3 == IF w2.cy >= w2.row_offset + w2.rows
              THEN [w2 EXCEPT !.row_offset = w2.cy - w2.rows + 1] ELSE w2
        w4 == IF w3.rx < w3.col_offset THEN [w3 EXCEPT !.col_offset = w3.rx] ELSE w3
    IN  IF w4.rx >= w4.col_offset + w4.columns
        THEN [w4 EXCEPT !.col_offset = w4.rx - w4.columns + 1] ELSE w4

\* Window::open_file(filename) for a readable file f = [ext, lines]
open_file(w, f) ==
    [w EXCEPT !.filename = "Some",
              !.render_buffer = @ \o [i \in 1..Len(f.lines) |-> to_render_line(f.lines[i])],
              !.content_buffer = @ \o f.lines,
              !.highlight = HighlightNew(w.content_buffer \o f.lines, f.ext)]

\* quit that never looks at the dirty flag
quit_at_once(w) == [w |-> w, status |-> "STOP"]

\* Window::quit(): the window and the returned LoopStatus
quit(w) ==
    IF w.dirty /\ ~w.quit_confirming
    THEN [w |-> [w EXCEPT !.status_message = "WARNING", !.quit_confirming = TRUE],
          status |-> "CONTINUE"]
    ELSE [w |-> w, status |-> "STOP"]

\* a probe order that always checks the starting index unmoved first
NextProbeFromCurrent(w, i, current) ==
    IF i = 0 THEN current
    ELSE IF w.search_direction = "Forward"
         THEN IF current + 1 = LineCount(w) THEN 0 ELSE current + 1
         ELSE IF current = 0 THEN LineCount(w) - 1 ELSE current - 1

\* a probe order that stops at the last (first) line instead of wrapping
NextProbeClamps(w, i, current) ==
    IF i = 0 /\ w.search_last_match = -1 THEN 0
    ELSE IF w.search_direction = "Forward"
         THEN IF current + 1 = LineCount(w) THEN current ELSE current + 1
         ELSE IF current = 0 THEN 0 ELSE current - 1

\* the probe order of the loop of editor_find_callback: the value of `current`
\* in iteration i, given the one of the iteration before
NextProbe(w, i, current) ==
    IF i = 0 /\ w.search_last_match = -1 THEN 0
    ELSE IF w.search_direction = "Forward"
         THEN IF current + 1 = LineCount(w) THEN 0 ELSE current + 1
         ELSE IF current = 0 THEN LineCount(w) - 1 ELSE current - 1

\* the `for i in 0..render_buffer.len()` loop: the lines probed so far and, on a
\* hit, the window after the jump
RECURSIVE FindLoop(_, _, _, _, _)
FindLoop(w, query, i, current, probes) ==
    IF i >= Len(w.render_buffer) THEN [w |-> w, probes |-> probes]
    ELSE LET cur == NextProbe(w, i, current)
             line == w.render_buffer[cur + 1]
             index == Find(line, query)
         IN  IF index # -1
             THEN LET x == rx_to_cx(index, w.content_buffer[cur + 1])
                      w1 == [w EXCEPT !.search_last_match = cur,
                                      !.cx = x, !.cy = cur, !.row_offset = cur]
                  IN  [w |-> IF match_row_in_range(w1.highlight, cur, x, x + Len(query))
                             THEN [w1 EXCEPT !.highlight =
                                       match_row(@, cur, x, x + Len(query))]
                             ELSE [w1 EXCEPT !.fault = TRUE],
                       probes |-> Append(probes, cur)]
             ELSE FindLoop(w, query, i + 1, cur, Append(probes, cur))

\* editor_find_callback after its `match key`: the direction is Forward
\* without a remembered match, then the loop runs from the remembered line
MatchAndJump(w, query) ==
    LET w2 == IF w.search_last_match = -1
              THEN [w EXCEPT !.search_direction = "Forward"] ELSE w
        current == IF w2.search_last_match = -1 THEN 0 ELSE w2.search_last_match
    IN  FindLoop(w2, query, 0, current, <<>>)

\* the `match key` arms of editor_find_callback that fall through to the loop
FindKeyDispatch(w, key) ==
    CASE key = "CTRL_S" -> [w EXCEPT !.search_direction = "Forward"]
      [] key = "CTRL_R" -> [w EXCEPT !.search_direction = "Backward"]
      [] OTHER -> [w EXCEPT !.search_direction = "Forward",
                            !.search_last_match = -1]

\* editor_find_callback whose Enter/ESC arm leaves search_last_match as it is
editor_find_callback_keeps_last_match(w, query, key) ==
    IF key \in {"\r", "ESC"}
    THEN [w |-> [w EXCEPT !.search_direction = "Forward"], probes |-> <<>>]
    ELSE The({MatchAndJump(w1, query) : w1 \in {FindKeyDispatch(w, key)}})

\* Window::editor_find_callback(query, key); search_last_match = -1 is None
editor_find_callback(w, query, key) ==
    IF key \in {"\r", "ESC"}
    THEN [w |-> [w EXCEPT !.search_direction = "Forward", !.search_last_match = -1],
          probes |-> <<>>]
    ELSE The({MatchAndJump(w1, query) : w1 \in {FindKeyDispatch(w, key)}})

\* PathBuf::extension of a file name typed into the save-as prompt
ExtensionOf(name) ==
    IF Len(name) >= 3 /\ SubSeq(name, Len(name) - 1, Len(name)) = <<".", "c">>
    THEN "c"
    ELSE IF Len(name) >= 4 /\ SubSeq(name, Len(name) - 2, Len(name)) = <<".", "r", "s">>
    THEN "rs"
    ELSE IF Len(name) >= 4 /\ SubSeq(name, Len(name) - 2, Len(name)) = <<".", "r", "b">>
    THEN "rb"
    ELSE ""

\* `for r in 0..self.content_buffer.len() { self.editor_update_row(r) }`
RECURSIVE UpdateRowsFrom(_, _)
UpdateRowsFrom(w, r) ==
    IF r >= LineCount(w) THEN w
    ELSE The({UpdateRowsFrom(w1, r + 1) : w1 \in {editor_update_row(w, r)}})

\* Window::save_file from File::create on, when every write succeeds; name is
\* the file name typed into the prompt when the buffer had none
save_file_written(w, name) ==
    The({IF w.filename = "None"
         THEN UpdateRowsFrom([w1 EXCEPT !.filename = "Some",
                                        !.highlight = HighlightNew(w.content_buffer,
                                                                   ExtensionOf(name))], 0)
         ELSE w1 :
            w1 \in {[w EXCEPT !.status_message = "bytes written to disk",
                              !.dirty = FALSE]}})

\* editor_find that forgets to restore row_offset after the abort key
editor_find_return_keeps_row_offset(w, saved, query) ==
    The({[w1 EXCEPT !.highlight.highlights = saved.highlights] :
            w1 \in {IF query = "None"
                    THEN [w EXCEPT !.cx = saved.cx, !.cy = saved.cy,
                                   !.col_offset = saved.col_offset]
                    ELSE w}})

\* editor_find that puts the saved highlights back only after the abort key
editor_find_return_keeps_match(w, saved, query) ==
    IF query = "None"
    THEN [w EXCEPT !.cx = saved.cx, !.cy = saved.cy,
                   !.col_offset = saved.col_offset,
                   !.row_offset = saved.row_offset,
                   !.highlight.highlights = saved.highlights]
    ELSE w

\* Window::editor_find after editor_prompt returned: query is "None" after
\* the abort key, "Some" after Enter
editor_find_return(w, saved, query) ==
    The({[w1 EXCEPT !.highlight.highlights = saved.highlights] :
            w1 \in {IF query = "None"
                    THEN [w EXCEPT !.cx = saved.cx, !.cy = saved.cy,
                                   !.col_offset = saved.col_offset,
                                   !.row_offset = saved.row_offset]
                    ELSE w}})

\* the callback editor_prompt calls for a key: editor_find_callback for the
\* search prompt, None for the save-as prompt
PromptCallback(w, kind, buffer, key) ==
    IF kind = "search" THEN editor_find_callback(w, buffer, key).w ELSE w

\* ------------------------------------------------------------------------
\* State: the fields of Window (window.rs:16-36), the position of main's
\* loop, and a record of the last key event handled
\* ------------------------------------------------------------------------
VARIABLES cx, rx, cy, rows, columns, row_offset, col_offset,
          content_buffer, render_buffer, filename, status_message,
          dirty, quit_confirming, search_last_match, search_direction,
          highlight, pc, edits, last, prompt

vars == <<cx, rx, cy, rows, columns, row_offset, col_offset,
          content_buffer, render_buffer, filename, status_message,
          dirty, quit_confirming, search_last_match, search_direction,
          highlight, pc, edits, last, prompt>>

\* the Window object of the current state
Self ==
    [cx |-> cx, rx |-> rx, cy |-> cy, rows |-> rows, columns |-> columns,
     row_offset |-> row_offset, col_offset |-> col_offset,
     content_buffer |-> content_buffer, render_buffer |-> render_buffer,
     filename |-> filename, status_message |-> status_message,
     dirty |-> dirty, quit_confirming |-> quit_confirming,
     search_last_match |-> search_last_match,
     search_direction |-> search_direction,
     highlight |-> highlight, fault |-> FALSE]

\* the next state holds the Window object w
Becomes(w) ==
    /\ cx' = w.cx /\ rx' = w.rx /\ cy' = w.cy
    /\ rows' = w.rows /\ columns' = w.columns
    /\ row_offset' = w.row_offset /\ col_offset' = w.col_offset
    /\ content_buffer' = w.content_buffer /\ render_buffer' = w.render_buffer
    /\ filename' = w.filename /\ status_message' = w.status_message
    /\ dirty' = w.dirty /\ quit_confirming' = w.quit_confirming
    /\ search_last_match' = w.search_last_match
    /\ search_direction' = w.search_direction
    /\ highlight' = w.highlight

\* ------------------------------------------------------------------------
\* Bounds and input sets
\* ------------------------------------------------------------------------
\* content-changing key events per session
MaxEdits == 1

\* lines per file opened by the open_file harness
MaxOpenLines == 3

\* length of the lines of the column-mapping harness
MaxRxLen == 4

\* lines per document of the search harness
FindLines == 5

\* Ctrl-X commands and search prompts per session
MaxPrompts == 2

\* keys read by one prompt before it is ended with Enter or the abort key
MaxPromptKeys == 3

\* the characters typed into a prompt
PromptChars == {"*", "b"}

\* (ws_col, ws_row) reported by the terminal
WindowSizes == {<<8, 4>>}

\* the characters typed
Chars == {"*", "/", "\t"}

\* the files named on the command line
Files ==
    {[ext |-> "txt", lines |-> << <<"a", "\t", "b">>, <<"c">> >>],
     [ext |-> "c", lines |-> << <<"/", "*">>, <<"*">>, <<"a">> >>]}

\* all sequences of at most n elements of S
SeqsUpTo(S, n) == UNION {[1..k -> S] : k \in 0..n}

NoEvent ==
    [op |-> "none", arg |-> "", cx |-> 0, cy |-> 0, n |-> 0, num |-> 0,
     query |-> <<>>, probes |-> <<>>]

\* the record of a key event handled in the current state
Event(op, arg) ==
    [NoEvent EXCEPT !.op = op, !.arg = arg, !.cx = cx, !.cy = cy,
                    !.n = Len(content_buffer)]

\* the locals of editor_prompt and of its caller: which prompt is open (kind),
\* prompt_buffer, the keys read by it so far, the prompts opened so far, and
\* the saved_* values of editor_find (for a save-as prompt, the same values at
\* the time the prompt was entered)
NoPrompt ==
    [kind |-> "none", buffer |-> <<>>, keys |-> 0, opened |-> 0,
     saved |-> [cx |-> 0, cy |-> 0, col_offset |-> 0, row_offset |-> 0,
                highlights |-> <<>>]]

\* Window::new: the state after construction
InitWindow ==
    /\ \E ws \in WindowSizes : columns = ws[1] /\ rows = ws[2] - 2
    /\ cx = 0 /\ rx = 0 /\ cy = 0
    /\ row_offset = 0 /\ col_offset = 0
    /\ content_buffer = <<>> /\ render_buffer = <<>>
    /\ filename = "None" /\ status_message = ""
    /\ dirty = FALSE /\ quit_confirming = FALSE
    /\ search_last_match = -1 /\ search_direction = "Forward"
    /\ highlight = [syntax |-> "Undefined", highlights |-> <<>>, in_comment |-> <<>>]
    /\ edits = 0 /\ last = NoEvent /\ prompt = NoPrompt

Init == InitWindow /\ pc = "start"

\* ------------------------------------------------------------------------
\* main.rs and input.rs: the session
\* ------------------------------------------------------------------------
\* where the loop goes after a handler returned the window w
After(w) == IF w.fault THEN "panicked" ELSE "refresh"

\* main: no file argument
StartEmpty ==
    /\ pc = "start"
    /\ Becomes([Self EXCEPT !.status_message = "HELP"])
    /\ pc' = "refresh"
    /\ UNCHANGED <<edits, last, prompt>>

\* main: open_file(args[1]) succeeds on a file of S
OpenFrom(S) ==
    /\ pc = "start"
    /\ \E f \in S :
          \E w \in {[w1 EXCEPT !.status_message = "HELP"] :
                        w1 \in {open_file(self, f) : self \in {Self}}} : Becomes(w)
    /\ pc' = "refresh"
    /\ last' = Event("open_file", "")
    /\ UNCHANGED <<edits, prompt>>

StartOpen == OpenFrom(Files)

\* refresh_screen at the top of the loop
Refresh ==
    /\ pc = "refresh"
    /\ \E w \in {editor_scroll(self) : self \in {Self}} : Becomes(w)
    /\ pc' = "readkey"
    /\ last' = NoEvent
    /\ UNCHANGED <<edits, prompt>>

\* a tail of process_keypress that leaves quit_confirming as it is
HandledKeepsConfirmation(w) == w

\* the tail of process_keypress after a handler that falls through
Handled(w) == IF w.fault THEN w ELSE [w EXCEPT !.quit_confirming = FALSE]

\* Char(c)
KeyChar ==
    /\ pc = "readkey" /\ edits < MaxEdits
    /\ \E c \in Chars :
          \E w \in {Handled(w1) : w1 \in {insert_char(self, c) : self \in {Self}}} :
              Becomes(w) /\ pc' = After(w) /\ last' = Event("Char", c)
    /\ edits' = edits + 1
    /\ UNCHANGED prompt

\* Char('\r')
KeyEnter ==
    /\ pc = "readkey" /\ edits < MaxEdits
    /\ \E w \in {Handled(w1) : w1 \in {break_line(self) : self \in {Self}}} :
          Becomes(w) /\ pc' = After(w)
    /\ last' = Event("Enter", "")
    /\ edits' = edits + 1
    /\ UNCHANGED prompt

\* Backspace
KeyBackspace ==
    /\ pc = "readkey" /\ edits < MaxEdits
    /\ \E w \in {Handled(w1) : w1 \in {delete_char(self) : self \in {Self}}} :
          Becomes(w) /\ pc' = After(w)
    /\ last' = Event("Backspace", "")
    /\ edits' = edits + 1
    /\ UNCHANGED prompt

\* Del
KeyDel ==
    /\ pc = "readkey" /\ edits < MaxEdits
    /\ \E w \in {Handled(w2) :
                    w2 \in {delete_char(w1) :
                        w1 \in {move_cursor(self, "Right") : self \in {Self}}}} :
          Becomes(w) /\ pc' = After(w)
    /\ last' = Event("Del", "")
    /\ edits' = edits + 1
    /\ UNCHANGED prompt

\* CursorMove(d)
KeyCursorMove ==
    /\ pc = "readkey"
    /\ \E d \in Directions :
          \E w \in {Handled(w1) : w1 \in {move_cursor(self, d) : self \in {Self}}} :
              Becomes(w)
    /\ last' = [NoEvent EXCEPT !.op = "CursorMove"]
    /\ pc' = "refresh"
    /\ UNCHANGED <<edits, prompt>>

\* Char(CTRL_Q)
KeyQuit ==
    /\ pc = "readkey"
    /\ \E r \in {quit(self) : self \in {Self}} :
          Becomes(r.w) /\ pc' = IF r.status = "STOP" THEN "stopped" ELSE "refresh"
    /\ last' = [NoEvent EXCEPT !.op = "CTRL_Q"]
    /\ UNCHANGED <<edits, prompt>>

\* Char('\x1b')
KeyEscape ==
    /\ pc = "readkey"
    /\ pc' = "refresh"
    /\ last' = [NoEvent EXCEPT !.op = "ESC"]
    /\ UNCHANGED <<cx, rx, cy, rows, columns, row_offset, col_offset,
                   content_buffer, render_buffer, filename, status_message,
                   dirty, quit_confirming, search_last_match, search_direction,
                   highlight, edits, prompt>>

\* NoOp: the read timed out
KeyNoOp ==
    /\ pc = "readkey"
    /\ pc' = "refresh"
    /\ last' = [NoEvent EXCEPT !.op = "NoOp"]
    /\ UNCHANGED <<cx, rx, cy, rows, columns, row_offset, col_offset,
                   content_buffer, render_buffer, filename, status_message,
                   dirty, quit_confirming, search_last_match, search_direction,
                   highlight, edits, prompt>>

\* main: open_file(args[1]) returns Err (canonicalize, File::open or a read
\* fails); `?` in main returns it and the process ends
StartOpenFails ==
    /\ pc = "start"
    /\ pc' = "failed"
    /\ last' = [NoEvent EXCEPT !.op = "open_file_err"]
    /\ UNCHANGED <<cx, rx, cy, rows, columns, row_offset, col_offset,
                   content_buffer, render_buffer, filename, status_message,
                   dirty, quit_confirming, search_last_match, search_direction,
                   highlight, edits, prompt>>

\* a prompt of the given kind is entered
PromptEntered(kind) ==
    [kind |-> kind, buffer |-> <<>>, keys |-> 0, opened |-> prompt.opened,
     saved |-> [cx |-> cx, cy |-> cy, col_offset |-> col_offset,
                row_offset |-> row_offset, highlights |-> highlight.highlights]]

\* the prompt has returned
PromptLeft == [NoPrompt EXCEPT !.opened = prompt.opened]

\* ControlS: editor_find up to its call of editor_prompt
KeyControlS ==
    /\ pc = "readkey" /\ prompt.opened < MaxPrompts
    /\ \E direction_forward \in BOOLEAN :
          search_direction' = IF direction_forward THEN "Forward" ELSE "Backward"
    /\ prompt' = [PromptEntered("search") EXCEPT !.opened = @ + 1]
    /\ pc' = "prompt_refresh"
    /\ last' = [NoEvent EXCEPT !.op = "ControlS"]
    /\ UNCHANGED <<cx, rx, cy, rows, columns, row_offset, col_offset,
                   content_buffer, render_buffer, filename, status_message,
                   dirty, quit_confirming, search_last_match, highlight, edits>>

\* ControlX: set_control_x up to its first readkey
KeyControlX ==
    /\ pc = "readkey" /\ prompt.opened < MaxPrompts
    /\ \E w \in {editor_scroll([self EXCEPT !.status_message = "C-x -"]) :
                    self \in {Self}} : Becomes(w)
    /\ prompt' = [prompt EXCEPT !.opened = @ + 1]
    /\ pc' = "ctrlx"
    /\ last' = [NoEvent EXCEPT !.op = "ControlX"]
    /\ UNCHANGED edits

\* set_control_x: Char(ESC)
CtrlXEscape ==
    /\ pc = "ctrlx"
    /\ Becomes(Handled([Self EXCEPT !.status_message = "C-x esc"]))
    /\ pc' = "refresh"
    /\ last' = [NoEvent EXCEPT !.op = "C-x esc"]
    /\ UNCHANGED <<edits, prompt>>

\* set_control_x: any other key
CtrlXOther ==
    /\ pc = "ctrlx"
    /\ Becomes(Handled([Self EXCEPT !.status_message = "Command Not Found"]))
    /\ pc' = "refresh"
    /\ last' = [NoEvent EXCEPT !.op = "C-x other"]
    /\ UNCHANGED <<edits, prompt>>

\* set_control_x: ControlS, save_file with a file name; every write succeeds
CtrlXSaveNamed ==
    /\ pc = "ctrlx" /\ filename = "Some"
    /\ \E w \in {Handled(w1) :
                    w1 \in {save_file_written(
                                [self EXCEPT !.status_message = "C-x C-s"], <<>>) :
                            self \in {Self}}} : Becomes(w)
    /\ pc' = "refresh"
    /\ last' = [NoEvent EXCEPT !.op = "save"]
    /\ UNCHANGED <<edits, prompt>>

\* set_control_x: ControlS, save_file with a file name; File::create, a write
\* or the flush returns Err, which `?` hands up to main: the process ends
CtrlXSaveFails ==
    /\ pc = "ctrlx" /\ filename = "Some"
    /\ Becomes([Self EXCEPT !.status_message = "C-x C-s"])
    /\ pc' = "failed"
    /\ last' = [NoEvent EXCEPT !.op = "save_err"]
    /\ UNCHANGED <<edits, prompt>>

\* set_control_x: ControlS, save_file without a file name: the save-as prompt
CtrlXSaveAs ==
    /\ pc = "ctrlx" /\ filename = "None"
    /\ Becomes([Self EXCEPT !.status_message = "C-x C-s"])
    /\ prompt' = PromptEntered("save")
    /\ pc' = "prompt_refresh"
    /\ last' = [NoEvent EXCEPT !.op = "save_as"]
    /\ UNCHANGED edits

\* editor_prompt: the top of its loop (status message, refresh_screen)
PromptRefresh ==
    /\ pc = "prompt_refresh"
    /\ \E w \in {editor_scroll([self EXCEPT !.status_message =
                                   IF prompt.kind = "search" THEN "Search" ELSE "Save as"]) :
                    self \in {Self}} : Becomes(w)
    /\ pc' = "prompt_key"
    /\ last' = NoEvent
    /\ UNCHANGED <<edits, prompt>>

\* editor_prompt: a key that calls the callback with the buffer b
PromptCalls(b, key) ==
    /\ pc = "prompt_key" /\ prompt.keys < MaxPromptKeys
    /\ \E w \in {PromptCallback(self, prompt.kind, b, key) : self \in {Self}} :
          Becomes(w) /\ pc' = IF w.fault THEN "panicked" ELSE "prompt_refresh"
    /\ prompt' = [prompt EXCEPT !.buffer = b, !.keys = @ + 1]
    /\ last' = [NoEvent EXCEPT !.op = key]
    /\ UNCHANGED edits

\* editor_prompt: Char(c)
PromptChar == \E c \in PromptChars : PromptCalls(Append(prompt.buffer, c), "Char")

\* editor_prompt: ControlS
PromptControlS == PromptCalls(prompt.buffer, "CTRL_S")

\* editor_prompt: ControlR
PromptControlR == PromptCalls(prompt.buffer, "CTRL_R")

\* editor_prompt: Backspace | Del
PromptBackspace ==
    /\ pc = "prompt_key" /\ prompt.keys < MaxPromptKeys
    /\ prompt' = [prompt EXCEPT !.keys = @ + 1,
                                !.buffer = IF Len(@) > 0 THEN SubSeq(@, 1, Len(@) - 1)
                                           ELSE @]
    /\ pc' = "prompt_refresh"
    /\ last' = [NoEvent EXCEPT !.op = "PromptBackspace"]
    /\ UNCHANGED <<cx, rx, cy, rows, columns, row_offset, col_offset,
                   content_buffer, render_buffer, filename, status_message,
                   dirty, quit_confirming, search_last_match, search_direction,
                   highlight, edits>>

\* editor_prompt: Char(ESC) in the search prompt, and editor_find after it
SearchCancel ==
    /\ pc = "prompt_key" /\ prompt.kind = "search"
    /\ \E w \in {Handled(editor_find_return(w1, prompt.saved, "None")) :
                    w1 \in {PromptCallback([self EXCEPT !.status_message = ""],
                                           "search", prompt.buffer, "ESC") :
                            self \in {Self}}} : Becomes(w)
    /\ prompt' = PromptLeft
    /\ pc' = "refresh"
    /\ last' = Event("search_cancel", "")
    /\ UNCHANGED edits

\* editor_prompt: Char('\r') in the search prompt, and editor_find after it
SearchAccept ==
    /\ pc = "prompt_key" /\ prompt.kind = "search"
    /\ \E w \in {Handled(editor_find_return(w1, prompt.saved, "Some")) :
                    w1 \in {PromptCallback([self EXCEPT !.status_message = ""],
                                           "search", prompt.buffer, "\r") :
                            self \in {Self}}} : Becomes(w)
    /\ prompt' = PromptLeft
    /\ pc' = "refresh"
    /\ last' = [Event("search_accept", "") EXCEPT !.query = prompt.buffer,
                                                 !.num = prompt.saved.cy]
    /\ UNCHANGED edits

\* editor_prompt: Char(ESC) in the save-as prompt, and save_file after it
SaveAsCancel ==
    /\ pc = "prompt_key" /\ prompt.kind = "save"
    /\ Becomes(Handled([Self EXCEPT !.status_message = "Save aborted"]))
    /\ prompt' = PromptLeft
    /\ pc' = "refresh"
    /\ last' = Event("save_cancel", "")
    /\ UNCHANGED edits

\* editor_prompt: Char('\r') in the save-as prompt; every write succeeds
SaveAsWritten ==
    /\ pc = "prompt_key" /\ prompt.kind = "save"
    /\ \E w \in {Handled(w1) :
                    w1 \in {save_file_written([self EXCEPT !.status_message = ""],
                                              prompt.buffer) :
                            self \in {Self}}} : Becomes(w)
    /\ prompt' = PromptLeft
    /\ pc' = "refresh"
    /\ last' = Event("save", "")
    /\ UNCHANGED edits

\* editor_prompt: Char('\r') in the save-as prompt; File::create, a write or
\* the flush returns Err, which `?` hands up to main: the process ends
SaveAsFails ==
    /\ pc = "prompt_key" /\ prompt.kind = "save"
    /\ Becomes([Self EXCEPT !.status_message = ""])
    /\ prompt' = PromptLeft
    /\ pc' = "failed"
    /\ last' = Event("save_err", "")
    /\ UNCHANGED edits

Next ==
    \/ StartEmpty
    \/ StartOpen
    \/ Refresh
    \/ KeyChar
    \/ KeyEnter
    \/ KeyBackspace
    \/ KeyDel
    \/ KeyCursorMove
    \/ KeyQuit
    \/ KeyEscape
    \/ KeyNoOp

Spec == Init /\ [][Next]_vars

\* the session with its prompts (search, Ctrl-X commands, save-as) and with
\* the file operations that can fail
NextSession ==
    \/ Next
    \/ StartOpenFails
    \/ KeyControlS
    \/ KeyControlX
    \/ CtrlXEscape
    \/ CtrlXOther
    \/ CtrlXSaveNamed
    \/ CtrlXSaveFails
    \/ CtrlXSaveAs
    \/ PromptRefresh
    \/ PromptChar
    \/ PromptControlS
    \/ PromptControlR
    \/ PromptBackspace
    \/ SearchCancel
    \/ SearchAccept
    \/ SaveAsCancel
    \/ SaveAsWritten
    \/ SaveAsFails

SpecSession == Init /\ [][NextSession]_vars

\* ------------------------------------------------------------------------
\* Highlight::new over a family of source files (SpecOpen)
\* ------------------------------------------------------------------------
OpenLinePool ==
    { <<"/", "*">>, <<"/", "*", " ", "a">>, <<"b", " ", "*", "/">>,
      <<"*", "/">>, <<"1">>, <<"/", "/", "a">> }

RubyLinePool ==
    { <<"=", "b", "e", "g", "i", "n">>, <<"=", "e", "n", "d">>, <<"1">> }

OpenDocs ==
    {[ext |-> e, lines |-> l] : e \in {"c", "rs"},
                                l \in SeqsUpTo(OpenLinePool, MaxOpenLines)}
    \cup {[ext |-> "rb", lines |-> l] : l \in SeqsUpTo(RubyLinePool, MaxOpenLines)}

OpenDoc == OpenFrom(OpenDocs)

NextOpen == OpenDoc

SpecOpen == Init /\ [][NextOpen]_vars

\* ------------------------------------------------------------------------
\* cx_to_rx / rx_to_cx over a family of lines (SpecRx): the cursor of a
\* one-line window is placed, mapped to its rendered column as editor_scroll
\* does, and mapped back from a rendered column as editor_find_callback does
\* ------------------------------------------------------------------------
RxLines == SeqsUpTo({"a", "\t"}, MaxRxLen)

\* the rendered columns tried: up to one past the widest expansion
RxColumns == 0..(KILO_TAB_STOP * MaxRxLen + 1)

InitRx ==
    /\ InitWindow
    /\ pc = "start"

RxOpen ==
    OpenFrom({[ext |-> "txt", lines |-> <<l>>] : l \in RxLines})

\* place the cursor and compute rx (window.rs:352-355)
RxPlace ==
    /\ pc \in {"refresh", "mapped", "back"}
    /\ \E c \in 0..Len(content_buffer[1]) :
          /\ cx' = c
          /\ rx' = cx_to_rx(c, content_buffer[1])
          /\ last' = [NoEvent EXCEPT !.op = "cx_to_rx", !.cx = c]
    /\ pc' = "mapped"
    /\ UNCHANGED <<cy, rows, columns, row_offset, col_offset,
                   content_buffer, render_buffer, filename, status_message,
                   dirty, quit_confirming, search_last_match, search_direction,
                   highlight, edits, prompt>>

\* map the rendered column just computed back (window.rs:542)
RxBack ==
    /\ pc = "mapped"
    /\ cx' = rx_to_cx(rx, content_buffer[1])
    /\ last' = [last EXCEPT !.op = "round_trip"]
    /\ pc' = "back"
    /\ UNCHANGED <<rx, cy, rows, columns, row_offset, col_offset,
                   content_buffer, render_buffer, filename, status_message,
                   dirty, quit_confirming, search_last_match, search_direction,
                   highlight, edits, prompt>>

\* map any rendered column r (window.rs:542 with index = r)
RxJump ==
    /\ pc \in {"refresh", "mapped", "back"}
    /\ \E r \in RxColumns :
          /\ cx' = rx_to_cx(r, content_buffer[1])
          /\ last' = [NoEvent EXCEPT !.op = "rx_to_cx", !.num = r]
    /\ pc' = "back"
    /\ UNCHANGED <<rx, cy, rows, columns, row_offset, col_offset,
                   content_buffer, render_buffer, filename, status_message,
                   dirty, quit_confirming, search_last_match, search_direction,
                   highlight, edits, prompt>>

NextRx ==
    \/ RxOpen
    \/ RxPlace
    \/ RxBack
    \/ RxJump

SpecRx == InitRx /\ [][NextRx]_vars

\* ------------------------------------------------------------------------
\* editor_find_callback over a family of documents and search states
\* (SpecFind): the window is inside the search prompt, with any
\* search_last_match and search_direction
\* ------------------------------------------------------------------------
FindLinePool == { <<"a">>, <<"b">>, <<"\t", "a">> }

FindQueries == { <<"a">>, <<" ">>, <<" ", " ", "a">> }

FindKeys == {"CTRL_S", "CTRL_R", "Char"}

FindOpen ==
    /\ OpenFrom({[ext |-> "txt", lines |-> l] : l \in SeqsUpTo(FindLinePool, FindLines)})

\* the prompt is entered with some match position and direction
FindEnter ==
    /\ pc = "refresh"
    /\ search_last_match' \in -1..(Len(content_buffer) - 1)
    /\ search_direction' \in {"Forward", "Backward"}
    /\ pc' = "prompt"
    /\ last' = NoEvent
    /\ UNCHANGED <<cx, rx, cy, rows, columns, row_offset, col_offset,
                   content_buffer, render_buffer, filename, status_message,
                   dirty, quit_confirming, highlight, edits, prompt>>

\* one call of the callback from editor_prompt, for one key event
FindKey ==
    /\ pc = "prompt"
    /\ \E q \in FindQueries, key \in FindKeys :
          \E r \in {editor_find_callback(self, q, key) : self \in {Self}} :
              /\ Becomes(r.w)
              /\ pc' = IF r.w.fault THEN "panicked" ELSE "probed"
              /\ last' = [Event(key, "") EXCEPT !.num = search_last_match,
                                                !.query = q,
                                                !.probes = r.probes]
    /\ UNCHANGED <<edits, prompt>>

NextFind ==
    \/ FindOpen
    \/ FindEnter
    \/ FindKey

SpecFind == Init /\ [][NextFind]_vars

\* ------------------------------------------------------------------------
\* Properties
\* ------------------------------------------------------------------------
\* the session is past start-up: open_file (if any) has run
Opened == pc # "start"

\* a key event of kind op was handled in this step and its handler returned
Handles(op) == pc = "readkey" /\ last'.op = op /\ pc' = "refresh"

\* every cell of a non-empty highlight row is MultilineComment
AllBlockComment(row) ==
    Len(row) > 0 /\ \A i \in 1..Len(row) : row[i] = "MultilineComment"

\* the row a scan of line with carried-in state `carried` produces
FreshRow(line, carried) ==
    ScanFrom(Profile(highlight.syntax), line, 0, ScanInit(carried)).row

\* C1: after every line-mutating operation, every line of the document has as
\* many highlight classes as its rendered (tab-expanded) text has characters.
C1_HighlightMatchesRender ==
    Opened =>
        \A i \in 1..Len(content_buffer) :
            /\ i <= Len(highlight.highlights)
            /\ Len(highlight.highlights[i]) = Len(render_buffer[i])

\* C2: after any sequence of edits, content_buffer, render_buffer,
\* highlight.highlights and highlight.in_comment have the same number of rows
\* and render_buffer[i] is the tab expansion of content_buffer[i] for every i.
C2_RowsInStep ==
    Opened =>
        /\ Len(render_buffer) = Len(content_buffer)
        /\ Len(highlight.highlights) = Len(content_buffer)
        /\ Len(highlight.in_comment) = Len(content_buffer)
        /\ \A i \in 1..Len(content_buffer) :
              render_buffer[i] = to_render_line(content_buffer[i])

\* marker m occurs in line at the (0-based) index i
HasAt(line, i, m) ==
    i >= 0 /\ i + Len(m) <= Len(line) /\ Slice(line, i, i + Len(m)) = m

\* the case of C3: line cy lies inside an open block comment, line cy + 1 is
\* all BlockComment, and the character typed into line cy completes the close
\* marker, which ends the comment in that line
C3_ClosesComment ==
    /\ Handles("Char")
    /\ Len(content_buffer') = Len(content_buffer)
    /\ 0 < cy /\ cy + 1 < Len(content_buffer)
    /\ highlight.in_comment[cy] /\ highlight.in_comment[cy + 1]
    /\ HasAt(content_buffer'[cy + 1],
             cx' - Len(Profile(highlight.syntax).multiline_comment_end),
             Profile(highlight.syntax).multiline_comment_end)
    /\ AllBlockComment(highlight.highlights[cy + 2])
    /\ ~highlight'.in_comment[cy + 1]

\* C3: when insert_char puts the close marker into line k of an open block
\* comment, line k+1 is re-scanned with carried-in state "not in comment": after
\* the edit its classes are those of a scan that starts outside a comment.
C3_NextLineRescanned ==
    [][C3_ClosesComment =>
          highlight'.highlights[cy + 2] = FreshRow(content_buffer[cy + 2], FALSE)]_vars

\* the cascade of section 4.2: scan line i; when its continuation flag
\* differs from the stored one, store it and go on with the next line
RECURSIVE Cascade(_, _, _)
Cascade(h, content, i) ==
    IF i >= Len(content) THEN h
    ELSE The({IF r.need = -1 THEN StoreRow(r, i)
              ELSE Cascade(StoreRow(r, i), content, r.need) :
                 r \in {line_to_highlight_color(h, content[i + 1], i)}})

\* an edit inside line cy: a character typed into it or deleted from it
C4_EditsInLine ==
    /\ Handles("Char") \/ Handles("Backspace")
    /\ Len(content_buffer') = Len(content_buffer)
    /\ content_buffer' # content_buffer
    /\ cy' = cy

\* C4: the re-scans an edit triggers run from the edited line up to the first
\* line whose recomputed continuation flag equals the stored one (or the end of
\* the document) and leave the classes and flags of every later line unchanged.
C4_CascadeStopsAtStableLine ==
    [][C4_EditsInLine => highlight' = Cascade(highlight, content_buffer', cy)]_vars

\* the block-comment markers of the profile of the open file
Mcs == Profile(highlight.syntax).multiline_comment_start
Mce == Profile(highlight.syntax).multiline_comment_end

\* line starts a block comment at its first character and does not close it
C5_Opens(line) ==
    /\ HasAt(line, 0, Mcs)
    /\ \A i \in Len(Mcs)..Len(line) : ~HasAt(line, i, Mce)

\* line holds no close marker
C5_StaysOpen(line) == \A i \in 0..Len(line) : ~HasAt(line, i, Mce)

\* the only close marker of line is at its end
C5_ClosesAtEnd(line) ==
    /\ HasAt(line, Len(line) - Len(Mce), Mce)
    /\ \A i \in 0..(Len(line) - Len(Mce) - 1) : ~HasAt(line, i, Mce)

\* lines k..j (0-based) of the document are a block comment that line k opens
\* outside any comment and line j closes at its end
C5_CommentLines(k, j) ==
    /\ k < j
    /\ k = 0 \/ ~highlight.in_comment[k]
    /\ C5_Opens(content_buffer[k + 1])
    /\ \A i \in (k + 1)..(j - 1) : C5_StaysOpen(content_buffer[i + 1])
    /\ C5_ClosesAtEnd(content_buffer[j + 1])

\* the highlighter of the document without its lines k..j
C5_Without(k, j) ==
    HighlightNew(SubSeq(content_buffer, 1, k)
                    \o SubSeq(content_buffer, j + 2, Len(content_buffer)),
                 IF highlight.syntax = "C" THEN "c" ELSE "rs")

\* C5: opening a file under a profile with the markers /* and */ classifies
\* every character of the lines from a comment's opening line to the line that
\* closes it at its end as BlockComment, leaves the continuation flag of the
\* closing line false, and classifies every later line as if the comment lines
\* were absent.
C5_BlockCommentOnOpen ==
    (pc = "refresh" /\ last.op = "open_file" /\ highlight.syntax \in {"C", "Rust"}) =>
        \A k \in 0..(Len(content_buffer) - 1), j \in 0..(Len(content_buffer) - 1) :
            C5_CommentLines(k, j) =>
                /\ \A i \in k..j : \A c \in 1..Len(content_buffer[i + 1]) :
                       highlight.highlights[i + 1][c] = "MultilineComment"
                /\ ~highlight.in_comment[j + 1]
                /\ \A i \in (j + 1)..(Len(content_buffer) - 1) :
                       highlight.highlights[i + 1] =
                           C5_Without(k, j).highlights[i + 1 - (j - k + 1)]

\* the file "/* a", "b */", "1" has been opened as C: the two comment lines are
\* BlockComment and the number after them is a Number
C5_Witness ==
    /\ pc = "refresh" /\ last.op = "open_file" /\ highlight.syntax = "C"
    /\ content_buffer = << <<"/", "*", " ", "a">>, <<"b", " ", "*", "/">>, <<"1">> >>
    /\ C5_CommentLines(0, 1)
    /\ highlight.highlights[3] = <<"Number">>

\* C6: for every content line and every cx with 0 <= cx <= len(line),
\* rx_to_cx(cx_to_rx(cx, line), line) = cx: mapping a content column to its
\* rendered column and back gives the column started from.
C6_RoundTrip ==
    (pc = "back" /\ last.op = "round_trip") => cx = last.cx

\* a round trip from the end of a line with two tabs, each after another
\* character
C6_Witness ==
    /\ pc = "back" /\ last.op = "round_trip"
    /\ content_buffer = << <<"a", "\t", "a", "\t">> >>
    /\ last.cx = 4 /\ rx = 16 /\ cx = 4

\* the rendered columns of the content column k of the only line
C7_Rx(k) == cx_to_rx(k, content_buffer[1])

\* C7: a rendered column rx inside the padding of a tab at content index k
\* (cx_to_rx of k <= rx < cx_to_rx of k+1) maps back to k, and an rx at or
\* beyond the rendered length of the line maps to len(line).
C7_PaddingMapsToTab ==
    (pc = "back" /\ last.op = "rx_to_cx") =>
        /\ \A k \in 0..(Len(content_buffer[1]) - 1) :
              (/\ content_buffer[1][k + 1] = "\t"
               /\ C7_Rx(k) <= last.num /\ last.num < C7_Rx(k + 1)) => cx = k
        /\ last.num >= C7_Rx(Len(content_buffer[1])) => cx = Len(content_buffer[1])

\* a column in the middle of the padding of the second tab of "a\ta\t"
C7_Witness ==
    /\ pc = "back" /\ last.op = "rx_to_cx"
    /\ content_buffer = << <<"a", "\t", "a", "\t">> >>
    /\ last.num = 12 /\ C7_Rx(3) = 9 /\ C7_Rx(4) = 16 /\ cx = 3

\* C8: delete_char with the cursor at (cy = 0, cx = 0) is a no-op: content,
\* rendered text, highlight, cursor position and the dirty flag are unchanged.
C8_DeleteAtOriginIsNoOp ==
    [][(Handles("Backspace") /\ cx = 0 /\ cy = 0) =>
          UNCHANGED <<content_buffer, render_buffer, highlight, cx, cy, dirty>>]_vars

\* Backspace has been handled at the origin of a document with lines
C8_Witness ==
    /\ pc = "refresh" /\ last.op = "Backspace"
    /\ last.cx = 0 /\ last.cy = 0
    /\ Len(content_buffer) > 1
    /\ ~dirty

\* the document after its lines cy - 1 and cy (0-based) are joined
C9_Joined ==
    SubSeq(content_buffer, 1, cy - 1)
        \o << content_buffer[cy] \o content_buffer[cy + 1] >>
        \o SubSeq(content_buffer, cy + 2, Len(content_buffer))

\* C9: delete_char with the cursor at (cy, 0), 0 < cy < line_count, replaces
\* lines cy-1 and cy by previous.content + current.content, reduces line_count
\* by one, keeps the other lines in order, sets cy to cy-1 and cx to the
\* former length of the previous line, and sets dirty.
C9_DeleteAtLineStartJoins ==
    [][(/\ pc = "readkey" /\ last'.op = "Backspace"
        /\ cx = 0 /\ 0 < cy /\ cy < Len(content_buffer)) =>
          /\ pc' = "refresh"
          /\ content_buffer' = C9_Joined
          /\ cy' = cy - 1
          /\ cx' = Len(content_buffer[cy])
          /\ dirty']_vars

\* the forward probe order after a last match on line m of n lines:
\* m+1, m+2, ..., wrapping from the last line to line 0, ending with m
C10_Order(m, n) == [i \in 1..n |-> (m + i) % n]

\* the places in the forward order whose line's rendered text holds the query
C10_Hits(m) ==
    {i \in 1..Len(render_buffer) :
        Find(render_buffer[C10_Order(m, Len(render_buffer))[i] + 1], last.query) # -1}

\* C10: with last_match_line = m and direction Forward, one match-and-jump
\* step probes lines m+1, m+2, ..., wrapping from the last line to line 0, never
\* probes a line twice, and lands on the first line in that order whose rendered
\* text contains the query (when none does, every line is probed once and the
\* cursor line and last match stay).
C10_ForwardStep ==
    (pc = "probed" /\ last.op = "CTRL_S" /\ last.num # -1) =>
        /\ search_direction = "Forward"
        /\ Len(last.probes) <= Len(render_buffer)
        /\ last.probes = SubSeq(C10_Order(last.num, Len(render_buffer)),
                                1, Len(last.probes))
        /\ \A i, j \in 1..Len(last.probes) : last.probes[i] = last.probes[j] => i = j
        /\ IF C10_Hits(last.num) = {}
           THEN /\ Len(last.probes) = Len(render_buffer)
                /\ cy = last.cy
                /\ search_last_match = last.num
           ELSE /\ Len(last.probes) \in C10_Hits(last.num)
                /\ \A i \in C10_Hits(last.num) : Len(last.probes) <= i
                /\ cy = last.probes[Len(last.probes)]
                /\ search_last_match = cy

\* the query occurs only on line 0 of a 5-line document and the last match was
\* line 3: the step probes line 4, then line 0, and lands there
C10_Witness ==
    /\ pc = "probed" /\ last.op = "CTRL_S" /\ last.num = 3
    /\ Len(content_buffer) = 5
    /\ last.query = <<"a">>
    /\ \A i \in 1..5 : (Find(render_buffer[i], last.query) # -1) <=> (i = 1)
    /\ last.probes = <<4, 0>>
    /\ cy = 0 /\ search_last_match = 0

\* C11: cancelling a search prompt or a save-as prompt with the abort key
\* leaves cx, cy, row_offset, col_offset and every line's highlight classes
\* equal to their values at the moment the prompt was entered.
C11_CancelRestores ==
    [][(/\ pc = "prompt_key" /\ pc' = "refresh"
        /\ last'.op \in {"search_cancel", "save_cancel"}) =>
          /\ cx' = prompt.saved.cx
          /\ cy' = prompt.saved.cy
          /\ row_offset' = prompt.saved.row_offset
          /\ col_offset' = prompt.saved.col_offset
          /\ highlight'.highlights = prompt.saved.highlights]_vars

\* a search that had jumped to another line was cancelled: the cursor is back
\* on the line of the first window row, away from where the search left it
C11_Witness ==
    /\ pc = "refresh" /\ last.op = "search_cancel"
    /\ last.cy # cy /\ last.cx # cx
    /\ row_offset <= cy

\* C12: after every editor_scroll (run at each refresh), the cursor lies in
\* the window: row_offset <= cy < row_offset + rows and
\* col_offset <= rx < col_offset + columns.
C12_CursorInWindow ==
    (pc \in {"readkey", "prompt_key", "ctrlx"} /\ rows >= 1 /\ columns >= 1) =>
        /\ row_offset <= cy /\ cy < row_offset + rows
        /\ col_offset <= rx /\ rx < col_offset + columns

\* the window has scrolled right to keep the cursor on its last column
C12_Witness ==
    /\ pc = "readkey" /\ rows >= 1 /\ columns >= 1
    /\ col_offset > 0 /\ rx = col_offset + columns - 1

\* C13: after every command (cursor moves, insert_char, delete_char,
\* break_line, search jump, search cancel), 0 <= cy <= line_count and
\* 0 <= cx <= len(content[cy]), the virtual line at cy = line_count counted
\* as empty.
C13_CursorInDocument ==
    (pc \in {"refresh", "prompt_refresh"}) =>
        /\ 0 <= cy /\ cy <= Len(content_buffer)
        /\ 0 <= cx
        /\ cx <= IF cy < Len(content_buffer) THEN Len(content_buffer[cy + 1]) ELSE 0

\* Backspace at the start of a line has joined it to the previous one: the
\* cursor stands inside the joined line, at the former end of the previous line
C13_Witness ==
    /\ pc = "refresh" /\ last.op = "Backspace"
    /\ last.cx = 0 /\ last.cy = cy + 1
    /\ Len(content_buffer) = last.n - 1
    /\ 0 < cx /\ cx < Len(content_buffer[cy + 1])

\* C14: while the document is dirty, the first quit request does not end the
\* session: it sets the warning status message and the loop continues; the
\* second quit request ends it. When the document is not dirty a single quit
\* request ends it. Nothing but a quit request ends the session this way or
\* arms the confirmation.
C14_QuitNeedsConfirmation ==
    [][/\ (pc = "readkey" /\ last'.op = "CTRL_Q") =>
              IF dirty /\ ~quit_confirming
              THEN /\ pc' = "refresh"
                   /\ quit_confirming'
                   /\ status_message' = "WARNING"
                   /\ dirty'
              ELSE pc' = "stopped"
       /\ (pc' = "stopped") => (last'.op = "CTRL_Q")
       /\ (quit_confirming' /\ ~quit_confirming) => (last'.op = "CTRL_Q" /\ dirty)]_vars

\* a dirty document, a first quit request answered with the warning, and the
\* second quit request that ended the session
C14_Witness ==
    /\ pc = "stopped" /\ last.op = "CTRL_Q"
    /\ dirty /\ quit_confirming /\ status_message = "WARNING"

\* C15: when saving fails (the file cannot be created or a write fails), the
\* failure is reported as a status message, the dirty flag stays as it was, and
\* the session stays in the input loop.
C15_SaveFailureIsReported ==
    [][(last'.op = "save_err" /\ last.op # "save_err") =>
          /\ pc' = "refresh"
          /\ status_message' \notin {"", "C-x C-s", status_message}
          /\ dirty' = dirty]_vars

\* C16: when the file named at startup does not exist or cannot be read, the
\* editor reports it via a status message and enters the input loop with an
\* empty, untitled buffer (no lines, filename unset, not dirty).
C16_OpenFailureIsReported ==
    (last.op = "open_file_err") =>
        /\ pc \in {"refresh", "readkey"}
        /\ status_message \notin {"", "HELP"}
        /\ content_buffer = <<>> /\ filename = "None" /\ ~dirty

\* a fresh left-to-right fold of the scan over the whole current document,
\* line 0 starting outside a comment
C17_Fold ==
    HighlightNewFrom([syntax |-> highlight.syntax, highlights |-> <<>>,
                      in_comment |-> <<>>], content_buffer, 0)

\* C17: after any sequence of edit operations, the stored highlight classes
\* and continuation flag of every line equal what a fresh left-to-right fold
\* over the whole current document produces (outside a search, which overlays
\* its match).
C17_HighlightIsFreshFold ==
    (pc \in {"refresh", "readkey"}) =>
        /\ highlight.highlights = C17_Fold.highlights
        /\ highlight.in_comment = C17_Fold.in_comment

\* the final state of the scan of line with the carried-in state `carried`
C18_Scan(line, carried) ==
    ScanFrom(Profile(highlight.syntax), line, 0, ScanInit(carried))

\* a whole line was inserted (break_line, insert_char at EOF) or removed
\* (delete_char joining two lines) by the step
C18_LineInsertedOrRemoved ==
    /\ pc = "readkey" /\ pc' = "refresh"
    /\ last'.op \in {"Enter", "Backspace", "Char"}
    /\ Len(content_buffer') # Len(content_buffer)

\* C18: when a whole line is inserted or removed, the highlight rows and
\* continuation flags are inserted/removed at the index of the content line:
\* afterwards there is one row and one flag per line, and every line from the
\* edited one on carries the classes and the flag of a scan whose carried-in
\* state is the flag of the line now before it.
C18_RowsFollowLines ==
    [][C18_LineInsertedOrRemoved =>
          /\ Len(highlight'.highlights) = Len(content_buffer')
          /\ Len(highlight'.in_comment) = Len(content_buffer')
          /\ \A j \in Min(cy, cy')..(Len(content_buffer') - 1) :
                \A st \in {C18_Scan(content_buffer'[j + 1],
                                    j > 0 /\ highlight'.in_comment[j])} :
                    /\ highlight'.highlights[j + 1] = st.row
                    /\ highlight'.in_comment[j + 1] = st.in_comment]_vars

\* the expansion section 4.1 describes: a tab gives one space and then spaces
\* until the length of the rendered text so far is a multiple of 8; any other
\* character is copied
RECURSIVE C19_Expand(_, _, _)
C19_Expand(line, k, out) ==
    IF k >= Len(line) THEN out
    ELSE IF line[k + 1] = "\t"
    THEN C19_Expand(line, k + 1,
                    out \o Repeat(" ", 1 + ((KILO_TAB_STOP - 1) - (Len(out) % KILO_TAB_STOP))))
    ELSE C19_Expand(line, k + 1, Append(out, line[k + 1]))

\* C19: to_render_line expands every tab by one space plus padding up to the
\* next multiple of 8 of the rendered length, also for a tab that follows an
\* earlier tab, and copies every other character unchanged (so the rendered
\* text is at least as long as the content).
C19_TabsPadToMultipleOf8 ==
    (pc # "start") =>
        \A i \in 1..Len(content_buffer) :
            /\ render_buffer[i] = C19_Expand(content_buffer[i], 0, <<>>)
            /\ Len(content_buffer[i]) <= Len(render_buffer[i])

\* C20: after editor_scroll, rx is the length of the rendered text of the
\* content prefix content[cy][0..cx] as to_render_line produces it, and rx is
\* 0 on the virtual line cy = line_count.
C20_RxIsRenderedPrefixLength ==
    (pc = "readkey") =>
        rx = IF cy < Len(content_buffer)
             THEN Len(to_render_line(SubSeq(content_buffer[cy + 1], 1, cx)))
             ELSE 0

\* C21: for every cursor position with cy < line_count and cx > 0, whatever cy
\* is relative to the window's row count, delete_char removes exactly the
\* character at index cx-1 of line cy, decrements cx, leaves every other line
\* and line_count unchanged, recomputes the line's rendered text and highlight,
\* and sets dirty.
C21_DeleteInLineRemovesChar ==
    [][(/\ pc = "readkey" /\ last'.op = "Backspace"
        /\ cy < Len(content_buffer) /\ cx > 0) =>
          /\ pc' = "refresh"
          /\ content_buffer' =
                [content_buffer EXCEPT ![cy + 1] = RemoveAt(@, cx - 1)]
          /\ cx' = cx - 1 /\ cy' = cy
          /\ render_buffer'[cy + 1] = to_render_line(content_buffer'[cy + 1])
          /\ highlight'.highlights[cy + 1] =
                FreshRow(content_buffer'[cy + 1], cy > 0 /\ highlight.in_comment[cy])
          /\ dirty']_vars

\* C22: insert_char with the cursor on the virtual line past EOF (cy ==
\* line_count, also in a document that already has lines) appends one empty
\* line at index cy and inserts the character there: line_count grows by one,
\* every pre-existing content and rendered line keeps its index and its text,
\* line cy is the single character, cx == 1 and dirty is set.
C22_InsertPastEofAppends ==
    [][(/\ pc = "readkey" /\ last'.op = "Char"
        /\ cy = Len(content_buffer)) =>
          /\ pc' = "refresh"
          /\ content_buffer' = Append(content_buffer, <<last'.arg>>)
          /\ Len(render_buffer') = Len(render_buffer) + 1
          /\ \A i \in 1..Len(render_buffer) : render_buffer'[i] = render_buffer[i]
          /\ cx' = 1 /\ cy' = cy
          /\ dirty']_vars

\* line cy of the document up to the cursor, and from the cursor on
C23_Head == Slice(content_buffer[cy + 1], 0, cx)

C23_Tail == Slice(content_buffer[cy + 1], cx, Len(content_buffer[cy + 1]))

\* C23: break_line at (cy, cx) with cy < line_count replaces line cy by
\* content[cy][0..cx] and inserts content[cy][cx..] as a new line at cy+1,
\* shifts all later lines down by one without change, recomputes rendered text
\* and highlight of both resulting lines (the new line scanned with the state
\* the shortened line above it ends in), moves the cursor to (cy+1, 0) and
\* sets dirty.
C23_BreakLineSplits ==
    [][(/\ pc = "readkey" /\ last'.op = "Enter"
        /\ cy < Len(content_buffer)) =>
          /\ pc' = "refresh"
          /\ content_buffer' =
                InsertAt(SetAt(content_buffer, cy, C23_Head), cy + 1, C23_Tail)
          /\ C23_Head \o C23_Tail = content_buffer[cy + 1]
          /\ render_buffer'[cy + 1] = to_render_line(C23_Head)
          /\ render_buffer'[cy + 2] = to_render_line(C23_Tail)
          /\ highlight'.highlights[cy + 1] =
                FreshRow(C23_Head, cy > 0 /\ highlight.in_comment[cy])
          /\ highlight'.highlights[cy + 2] =
                FreshRow(C23_Tail, highlight'.in_comment[cy + 1])
          /\ cy' = cy + 1 /\ cx' = 0
          /\ dirty']_vars

\* some line's rendered text contains the query
C24_SomeLineMatches(query) ==
    \E i \in 1..Len(render_buffer) : Find(render_buffer[i], query) # -1

\* C24: every match-and-jump invocation terminates after probing at most
\* line_count lines, each line at most once, in either direction and on an
\* empty document; when no line's rendered text contains the query, cursor,
\* row_offset, last_match_line (as the key left it on entry to the loop) and
\* all highlight classes are unchanged by the invocation.
C24_OnePassAtMost ==
    [][(pc = "prompt" /\ pc' # "prompt") =>
          /\ Len(last'.probes) <= Len(content_buffer)
          /\ \A i, j \in 1..Len(last'.probes) :
                i # j => last'.probes[i] # last'.probes[j]
          /\ ~C24_SomeLineMatches(last'.query) =>
                /\ pc' = "probed"
                /\ Len(last'.probes) = Len(content_buffer)
                /\ cx' = cx /\ cy' = cy /\ row_offset' = row_offset
                /\ search_last_match' =
                      FindKeyDispatch(Self, last'.op).search_last_match
                /\ highlight' = highlight]_vars

\* a backward search from a remembered line went once around a document of
\* several lines without a hit
C24_Witness ==
    /\ pc = "probed" /\ last.op = "CTRL_R"
    /\ Len(content_buffer) >= 3
    /\ ~C24_SomeLineMatches(last.query)
    /\ last.num >= 1 /\ search_last_match = last.num
    /\ Len(last.probes) = Len(content_buffer)
    /\ last.probes[1] = last.num - 1

\* the line the invocation of this step stopped at (its last probe)
C25_L == last'.probes[Len(last'.probes)]

\* the rendered index of the hit in that line
C25_R == Find(render_buffer[C25_L + 1], last'.query)

\* row with the cells [from, to) overlaid as SearchMatch
C25_Overlay(row, from, to) ==
    [i \in 1..Len(row) |-> IF from < i /\ i <= to THEN "Match" ELSE row[i]]

\* C25: when match-and-jump hits the query at rendered index r of line L, it
\* sets last_match_line = L, cy = L, row_offset = L, cx = rx_to_cx(r,
\* content[L]) and marks exactly the highlight cells [r, r + len(query)) of
\* line L as SearchMatch, never writing a cell outside that line's highlight
\* row (also for lines with tabs and for hits inside tab padding).
C25_HitJumpsAndMarks ==
    [][(/\ pc = "prompt" /\ pc' # "prompt"
        /\ C24_SomeLineMatches(last'.query)) =>
          /\ pc' = "probed"
          /\ search_last_match' = C25_L /\ cy' = C25_L /\ row_offset' = C25_L
          /\ cx' = rx_to_cx(C25_R, content_buffer[C25_L + 1])
          /\ C25_R + Len(last'.query) <= Len(highlight.highlights[C25_L + 1])
          /\ highlight'.highlights =
                [highlight.highlights EXCEPT ![C25_L + 1] =
                    C25_Overlay(@, C25_R, C25_R + Len(last'.query))]]_vars

\* no highlight cell of any line has the class of a search match
C26_NoMatchCell ==
    \A i \in 1..Len(highlight.highlights) :
        \A j \in 1..Len(highlight.highlights[i]) :
            highlight.highlights[i][j] # "Match"

\* C26: after a search is confirmed with the commit key, the cursor stays at
\* the last match position and every line's highlight equals its
\* classification before the search began, so no cell is SearchMatch;
\* consequently no cell is SearchMatch whenever the main loop waits for a key
\* outside a prompt.
C26_ConfirmKeepsCursorDropsOverlay ==
    /\ [][(/\ pc = "prompt_key" /\ pc' = "refresh"
           /\ last'.op = "search_accept") =>
             /\ cx' = cx /\ cy' = cy
             /\ highlight'.highlights = prompt.saved.highlights
             /\ C26_NoMatchCell']_vars
    /\ [](pc = "readkey" => C26_NoMatchCell)

\* a search for "*" that had jumped from line 0 to the hit on line 1 was
\* confirmed: the cursor is on the hit
C26_Witness ==
    /\ pc = "refresh" /\ last.op = "search_accept"
    /\ last.query = <<"*">> /\ last.num = 0
    /\ cy = 1 /\ cx = 0 /\ row_offset = 1
    /\ content_buffer[2] = <<"*">>
    /\ C26_NoMatchCell

\* the lines the callback probes for the key handled in this step
C27_Probes == editor_find_callback(Self, prompt'.buffer, last'.op).probes

\* C27: search state does not persist between searches: once a search has
\* ended by confirm or by cancel, last_match_line is absent (it is absent
\* whenever the editor is outside a prompt and when a search prompt is
\* entered), so the first probe of the next search checks line 0 unmoved
\* wherever the previous search ended.
C27_SearchStateDoesNotPersist ==
    /\ []((pc \in {"refresh", "readkey"}) => search_last_match = -1)
    /\ [][(pc = "readkey" /\ last'.op = "ControlS") =>
             search_last_match' = -1]_vars
    /\ [][(/\ pc = "prompt_key" /\ prompt.kind = "search"
           /\ pc' \in {"prompt_refresh", "panicked"}
           /\ last'.op \in {"CTRL_S", "CTRL_R", "Char"}
           /\ prompt.keys = 0 /\ Len(content_buffer) > 0) =>
             /\ search_last_match = -1
             /\ C27_Probes[1] = 0]_vars

\* in a second search, entered with the cursor on the hit in line 0 that the
\* first search ended on, the direction key was the first key: the probe
\* checked line 0 again instead of moving on to the hit in line 1
C27_Witness ==
    /\ pc = "prompt_refresh" /\ prompt.kind = "search"
    /\ prompt.opened = 2 /\ prompt.keys = 1
    /\ last.op = "CTRL_S"
    /\ Len(content_buffer) = 3 /\ content_buffer[2] = <<"*">>
    /\ prompt.saved.cy = 0 /\ prompt.saved.cx = 1
    /\ search_last_match = 0 /\ cy = 0

\* a key of the search prompt other than confirm and cancel is handled
C28_PromptKey ==
    /\ pc = "prompt_key" /\ prompt.kind = "search"
    /\ pc' \in {"prompt_refresh", "panicked"}

\* the window with the direction a direction key of this step commits
C28_Committed ==
    [Self EXCEPT !.search_direction =
        CASE last'.op = "CTRL_S" -> "Forward"
          [] last'.op = "CTRL_R" -> "Backward"
          [] OTHER -> @]

\* the step left cursor, row_offset, last match and highlight as w has them
C28_Left(w) ==
    /\ cx' = w.cx /\ cy' = w.cy /\ row_offset' = w.row_offset
    /\ search_last_match' = w.search_last_match
    /\ highlight' = w.highlight

\* C28: during a search prompt, every key event other than confirm and cancel
\* (a typed character, Backspace/Delete shortening the query, a direction key)
\* re-runs match-and-jump with the current query buffer, and with the
\* direction committed so far: a typed character does not change a committed
\* Backward direction.
C28_EveryKeyRerunsSearch ==
    [][C28_PromptKey =>
          /\ (last'.op \in {"CTRL_S", "CTRL_R", "PromptBackspace"}) =>
                C28_Left(MatchAndJump(C28_Committed, prompt'.buffer).w)
          /\ (last'.op = "Char" /\ search_last_match # -1) =>
                search_direction' = search_direction]_vars

\* the index of the first close marker of line, -1 when it has none
C29_FirstClose(line) ==
    IF \E p \in 0..Len(line) : HasAt(line, p, Mce)
    THEN CHOOSE p \in 0..Len(line) :
            HasAt(line, p, Mce) /\ \A q \in 0..(p - 1) : ~HasAt(line, q, Mce)
    ELSE -1

\* the row of a line scanned from inside a block comment whose first close
\* marker is at p: block-comment cells up to the end of the marker, then the
\* scan resumed outside the comment at the first character after the marker
C29_Resumed(line, p) ==
    ScanFrom(Profile(highlight.syntax), line, p + Len(Mce),
             [ScanInit(FALSE) EXCEPT
                 !.row = Repeat("MultilineComment", p + Len(Mce))]).row

\* C29: when the scanner is inside a block comment and the remaining text
\* starts with the close marker, it classifies each character of the marker
\* as BlockComment exactly once, clears in_block_comment and resumes scanning
\* at the first character after the marker, for "*/" as well as for longer
\* markers such as "=end"; no character of the marker is scanned or classified
\* a second time.
C29_CloseConsumesMarker ==
    (pc = "refresh" /\ last.op = "open_file" /\ Len(Mce) > 0) =>
        \A i \in 1..(Len(content_buffer) - 1) :
            (highlight.in_comment[i] /\ C29_FirstClose(content_buffer[i + 1]) # -1) =>
                highlight.highlights[i + 1] =
                    C29_Resumed(content_buffer[i + 1],
                                C29_FirstClose(content_buffer[i + 1]))

\* the cursor is on the virtual line past EOF of a document with lines
C30_OnVirtualLine == cy = Len(content_buffer) /\ cx = 0 /\ cy > 0

\* the cursor is at the end of the last line
C30_AtEndOfLastLine ==
    /\ cy + 1 = Len(content_buffer)
    /\ cx = Len(content_buffer[cy + 1])

\* C30: no key-event sequence makes delete_char index a nonexistent line:
\* Backspace with the cursor on the virtual line past EOF (cy == line_count,
\* cx == 0) and the Delete key at the end of the last line (move Right, then
\* delete_char) leave the document content unchanged and do not fail.
C30_DeletePastEofIsHarmless ==
    [][(/\ pc = "readkey"
        /\ \/ last'.op = "Backspace" /\ C30_OnVirtualLine
           \/ last'.op = "Del" /\ (C30_OnVirtualLine \/ C30_AtEndOfLastLine)) =>
          /\ pc' = "refresh"
          /\ content_buffer' = content_buffer]_vars

\* C31: break_line (Enter) is defined for every reachable cursor state,
\* including an empty document and the virtual line past EOF (cy ==
\* line_count): it adds a line and moves the cursor to the start of the
\* following line without indexing a nonexistent content line.
C31_BreakLineIsTotal ==
    [][(pc = "readkey" /\ last'.op = "Enter") =>
          /\ pc' = "refresh"
          /\ Len(content_buffer') = Len(content_buffer) + 1
          /\ cy' = cy + 1 /\ cx' = 0]_vars

\* the key events the confirmation ignores
C32_Ignored == {"ESC", "NoOp"}

\* a command other than a quit request or an ignored event returns to the loop
C32_CommandDone ==
    /\ pc \in {"readkey", "ctrlx", "prompt_key"} /\ pc' = "refresh"
    /\ last'.op \notin (C32_Ignored \cup {"CTRL_Q"})

\* C32: the quit confirmation is re-armed by any intervening command: while
\* dirty, a quit request ends the session only if the key event processed
\* before it, ignoring no-event and Escape events, was also a quit request
\* (the confirmation is pending exactly then: only a quit request sets it,
\* no-event and Escape leave it, every other command clears it); after quit,
\* some edit/navigation/search/C-x command, then quit, the session is still
\* running.
C32_ConfirmationIsReArmed ==
    [][/\ (pc = "readkey" /\ last'.op = "CTRL_Q" /\ dirty) =>
              /\ (pc' = "stopped") <=> quit_confirming
              /\ (pc' = "refresh") <=> ~quit_confirming
       /\ C32_CommandDone => ~quit_confirming'
       /\ (pc = "readkey" /\ last'.op \in C32_Ignored) =>
              (pc' = "refresh" /\ quit_confirming' = quit_confirming)
       /\ (quit_confirming' # quit_confirming) =>
              \/ last'.op = "CTRL_Q" /\ quit_confirming'
              \/ C32_CommandDone]_vars

\* a quit request on a dirty document was answered with the warning and a
\* command has been handled since: the confirmation is no longer pending, so
\* the next quit request will warn again
C32_Witness ==
    /\ pc = "readkey" /\ dirty
    /\ status_message = "WARNING"
    /\ ~quit_confirming

====
